---- MODULE Spec2Model ----
(***************************************************************************)
(* Voice-notes: reconciliation of streaming speech-to-text hypotheses.     *)
(*                                                                         *)
(* The timestamp-aware LocalAgreementProcessor (LocalAgreementProcessor.js)*)
(* and the worker that drives it (worker.js), with the recording hook that *)
(* receives the worker's messages and stops the recording                  *)
(* (useRecording.js); the loading of the model by the worker; the          *)
(* plain-text LocalAgreementProcessor; and the window of audio that the    *)
(* recording strategy cuts for the worker (useWebRecordingStrategy.js).    *)
(*                                                                         *)
(* Time is counted in ticks of 1/30 s, so that the 0.1 s tolerance of the  *)
(* stale filter is 3 ticks and the 1 s n-gram window is 30 ticks; the      *)
(* arithmetic on times is exact.                                           *)
(***************************************************************************)
EXTENDS Integers, Sequences, FiniteSets, TLC

VARIABLES
    committedInBuffer,  \* this.committedInBuffer
    buffer,             \* this.buffer
    new,                \* this.new
    lastCommittedTime,  \* this.lastCommittedTime
    lastCommittedWord,  \* this.lastCommittedWord
    allCommitted,       \* this.allCommitted
    result,             \* value returned by the last process()/finalize()
    call,               \* the last call: its name, arguments and pre-state
    passes,             \* word texts of the hypotheses of earlier process() calls
    hypothesis,         \* chunks and audioWindowStart of the last process() call
    isProcessing,       \* worker: isProcessing
    pendingFinalize,    \* worker: pendingFinalize (0 is null)
    generateCall,       \* worker: where the last handleGenerate call stands
    finalizeCalls,      \* worker: the handleFinalize calls and where each stands
    outbox,             \* messages the worker has posted, not yet handled
    committedTextRef,   \* useRecording: committedTextRef.current
    tentativeTextRef,   \* useRecording: tentativeTextRef.current
    hook,               \* useRecording: isProcessing, and where stopRecording stands
    load,               \* worker: the state of handleLoad and its calls
    plain,              \* the plain-text LocalAgreementProcessor and its last results
    recorded            \* the samples recorded and the window cut from them

procVars == <<committedInBuffer, buffer, new, lastCommittedTime,
              lastCommittedWord, allCommitted>>

workerVars == <<isProcessing, pendingFinalize, generateCall, finalizeCalls,
                outbox, committedTextRef, tentativeTextRef>>

\* the variables that the processor and the handlers of generate, finalize
\* and reset do not touch
otherVars == <<hook, load, plain, recorded>>

vars == <<committedInBuffer, buffer, new, lastCommittedTime,
          lastCommittedWord, allCommitted, result, call, passes, hypothesis,
          isProcessing, pendingFinalize, generateCall, finalizeCalls,
          outbox, committedTextRef, tentativeTextRef, hook, load, plain,
          recorded>>

----------------------------------------------------------------------------
(* Bounds of the model *)

\* largest number of words in one hypothesis
MaxHypLen == 2

\* largest audioWindowStart, in ticks
MaxOffset == 1

\* process()/finalize() are not taken once allCommitted would grow past this
MaxCommitted == 2

\* largest beforeTime, in ticks, passed to popCommitted
MaxPopTime == 2

\* largest number of words committed before the call whose n-gram loop is
\* examined, and largest number of words in the hypothesis of that call
MaxTail == 6

MaxNew == 6

\* largest number of words in the hypothesis of a long utterance, and of
\* words committed of it
MaxLong == 46

\* by how many words the hypotheses of a long utterance differ in length
LongSpread == 5

\* largest number of words in a transcription given to the plain-text
\* processor, and of words it commits
MaxPlainLen == 2

MaxPlainCommitted == 3

\* number of handleLoad calls that can be under way or scheduled at once
MaxLoads == 2

\* a load is not let fail once this many attempts have failed in a row
MaxFailures == 3

\* the recordings examined are those that end within WindowSpread samples of
\* the length at which the window shifts for the k-th time, k up to MaxShifts
MaxShifts == 3

WindowSpread == 40

\* largest number of words in a hypothesis decoded for the worker
MaxDecodeLen == 1

\* number of handleFinalize calls that can be under way at once
MaxFinalizes == 2

\* largest number of posted messages waiting to be handled
MaxOutbox == 2

(* Program constants, in ticks of 1/30 s *)

\* the 0.1 s tolerance of the stale filter
STALE_TOLERANCE == 3

\* the 1 s window around lastCommittedTime in which n-grams are compared
NGRAM_WINDOW == 30

MAX_NGRAM_SIZE == 5

\* the lookback of the plain-text processor, in words
SUFFIX_SIZE == 45

\* the plain-text processor: a window has shifted when it starts more than
\* 0.5 s after the last one
WINDOW_SHIFT_THRESHOLD == 15

MIN_OVERLAP_LENGTH == 2

MAX_LOAD_ATTEMPTS == 2

(* Program constants of the recording, in samples and seconds *)

WHISPER_SAMPLING_RATE == 16000

\* seconds
MAX_AUDIO_LENGTH == 30

MAX_SAMPLES == WHISPER_SAMPLING_RATE * MAX_AUDIO_LENGTH

\* seconds
WINDOW_SHIFT == 20

WINDOW_SHIFT_SAMPLES == WHISPER_SAMPLING_RATE * WINDOW_SHIFT

----------------------------------------------------------------------------
(* Words and hypotheses *)

Texts == {"a", "A", "b"}

null == "null"

\* String.prototype.toLowerCase on the word texts of the model
toLowerCase(t) == CASE t = "A" -> "a" [] t = "B" -> "b" [] OTHER -> t

Min(a, b) == IF a <= b THEN a ELSE b

Abs(x) == IF x < 0 THEN 0 - x ELSE x

\* sequences of at most n elements of S
SeqsUpTo(S, n) == UNION {[1..k -> S] : k \in 0..n}

\* the chunks of one decode: the words follow each other from the start of
\* the window, one tick each
chunksOf(texts) ==
    [i \in 1..Len(texts) |-> [text |-> texts[i], start |-> i - 1, end |-> i]]

\* the hypotheses a decode can return
Hypotheses ==
    {chunksOf(ts) : ts \in SeqsUpTo(Texts, MaxHypLen)}

\* audioWindowStart values, in ticks
Offsets == 0..MaxOffset

----------------------------------------------------------------------------
(* LocalAgreementProcessor *)

\* the processor's fields as one record
Proc ==
    [committedInBuffer |-> committedInBuffer, buffer |-> buffer, new |-> new,
     lastCommittedTime |-> lastCommittedTime,
     lastCommittedWord |-> lastCommittedWord, allCommitted |-> allCommitted]

\* constructor
constructor ==
    [committedInBuffer |-> <<>>, buffer |-> <<>>, new |-> <<>>,
     lastCommittedTime |-> 0, lastCommittedWord |-> null,
     allCommitted |-> <<>>]

\* a reset that leaves lastCommittedTime and lastCommittedWord as they are
reset_keeps_time(p) ==
    [p EXCEPT !.committedInBuffer = <<>>, !.buffer = <<>>, !.new = <<>>,
              !.allCommitted = <<>>]

\* reset()
reset(p) ==
    [p EXCEPT !.committedInBuffer = <<>>, !.buffer = <<>>, !.new = <<>>,
              !.lastCommittedTime = 0, !.lastCommittedWord = null,
              !.allCommitted = <<>>]

\* words.map(w => w.text).join(" ")
RECURSIVE join(_)
join(ws) ==
    IF Len(ws) = 0 THEN ""
    ELSE IF Len(ws) = 1 THEN ws[1].text
    ELSE ws[1].text \o " " \o join(Tail(ws))

\* words.map(w => w.text).join(" ").toLowerCase()
RECURSIVE joinLower(_)
joinLower(ws) ==
    IF Len(ws) = 0 THEN ""
    ELSE IF Len(ws) = 1 THEN toLowerCase(ws[1].text)
    ELSE toLowerCase(ws[1].text) \o " " \o joinLower(Tail(ws))

\* Array.prototype.slice(-i)
sliceLast(ws, i) == SubSeq(ws, Len(ws) - i + 1, Len(ws))

\* chunks.map(chunk => ({text, start + audioWindowStart, end + audioWindowStart}))
wordsWithOffset(chunks, audioWindowStart) ==
    [i \in 1..Len(chunks) |->
        [text |-> chunks[i].text,
         start |-> chunks[i].start + audioWindowStart,
         end |-> chunks[i].end + audioWindowStart]]

\* a loop that goes on after a match and splices the longest n-gram off
RECURSIVE ngramLoop_longest(_, _, _)
ngramLoop_longest(cib, nw, i) ==
    IF i > Min(Min(Len(cib), Len(nw)), MAX_NGRAM_SIZE) THEN 0
    ELSE LET longer == ngramLoop_longest(cib, nw, i + 1)
         IN IF longer > 0 THEN longer
            ELSE IF joinLower(sliceLast(cib, i)) = joinLower(SubSeq(nw, 1, i)) THEN i
            ELSE 0

\* the n-gram loop of _insert: the number of words spliced off the front
RECURSIVE ngramLoop(_, _, _)
ngramLoop(cib, nw, i) ==
    IF i > Min(Min(Len(cib), Len(nw)), MAX_NGRAM_SIZE) THEN 0
    ELSE IF joinLower(sliceLast(cib, i)) = joinLower(SubSeq(nw, 1, i)) THEN i
    ELSE ngramLoop(cib, nw, i + 1)

\* a stale filter that lets every word through
staleFilter_keeps_all(newWords, lct) ==
    SelectSeq(newWords, LAMBDA w : TRUE)

\* a stale filter without the 0.1 s tolerance
staleFilter_without_tolerance(newWords, lct) ==
    SelectSeq(newWords, LAMBDA w : w.start > lct)

\* the stale filter of _insert
staleFilter(newWords, lct) ==
    SelectSeq(newWords, LAMBDA w : w.start > lct - STALE_TOLERANCE)

\* an _insert that compares n-grams however far the first word is from
\* lastCommittedTime
insert_any_distance(p, newWords) ==
    LET nw == staleFilter(newWords, p.lastCommittedTime)
        removed ==
            IF /\ Len(nw) >= 1
               /\ Len(p.committedInBuffer) > 0
            THEN ngramLoop(p.committedInBuffer, nw, 1)
            ELSE 0
    IN [p EXCEPT !.new = SubSeq(nw, removed + 1, Len(nw))]

\* _insert(newWords)
insert(p, newWords) ==
    LET nw == staleFilter(newWords, p.lastCommittedTime)
        removed ==
            IF /\ Len(nw) >= 1
               /\ Abs(nw[1].start - p.lastCommittedTime) < NGRAM_WINDOW
               /\ Len(p.committedInBuffer) > 0
            THEN ngramLoop(p.committedInBuffer, nw, 1)
            ELSE 0
    IN [p EXCEPT !.new = SubSeq(nw, removed + 1, Len(nw))]

\* a loop that commits the front word although this.buffer is empty
RECURSIVE flushLoop_unconfirmed(_)
flushLoop_unconfirmed(s) ==
    IF Len(s.p.new) = 0 THEN s
    ELSE IF \/ Len(s.p.buffer) = 0
            \/ toLowerCase(s.p.new[1].text) = toLowerCase(s.p.buffer[1].text)
    THEN flushLoop_unconfirmed(
             [p |-> [s.p EXCEPT !.lastCommittedWord = s.p.new[1].text,
                                !.lastCommittedTime = s.p.new[1].end,
                                !.buffer = IF Len(s.p.buffer) = 0 THEN <<>>
                                           ELSE Tail(s.p.buffer),
                                !.new = Tail(s.p.new)],
              commit |-> Append(s.commit, s.p.new[1])])
    ELSE s

\* a loop that commits the front words without comparing their texts
RECURSIVE flushLoop_no_compare(_)
flushLoop_no_compare(s) ==
    IF Len(s.p.new) = 0 THEN s
    ELSE IF Len(s.p.buffer) = 0 THEN s
    ELSE flushLoop_no_compare(
             [p |-> [s.p EXCEPT !.lastCommittedWord = s.p.new[1].text,
                                !.lastCommittedTime = s.p.new[1].end,
                                !.buffer = Tail(s.p.buffer),
                                !.new = Tail(s.p.new)],
              commit |-> Append(s.commit, s.p.new[1])])

\* a loop that compares the texts as they are, without toLowerCase
RECURSIVE flushLoop_case_sensitive(_)
flushLoop_case_sensitive(s) ==
    IF Len(s.p.new) = 0 THEN s
    ELSE IF Len(s.p.buffer) = 0 THEN s
    ELSE IF s.p.new[1].text = s.p.buffer[1].text
    THEN flushLoop_case_sensitive(
             [p |-> [s.p EXCEPT !.lastCommittedWord = s.p.new[1].text,
                                !.lastCommittedTime = s.p.new[1].end,
                                !.buffer = Tail(s.p.buffer),
                                !.new = Tail(s.p.new)],
              commit |-> Append(s.commit, s.p.new[1])])
    ELSE s

\* a loop that commits the agreeing words without moving lastCommittedTime
RECURSIVE flushLoop_keeps_time(_)
flushLoop_keeps_time(s) ==
    IF Len(s.p.new) = 0 THEN s
    ELSE IF Len(s.p.buffer) = 0 THEN s
    ELSE IF toLowerCase(s.p.new[1].text) = toLowerCase(s.p.buffer[1].text)
    THEN flushLoop_keeps_time(
             [p |-> [s.p EXCEPT !.lastCommittedWord = s.p.new[1].text,
                                !.buffer = Tail(s.p.buffer),
                                !.new = Tail(s.p.new)],
              commit |-> Append(s.commit, s.p.new[1])])
    ELSE s

\* the while loop of _flush; s carries the processor and the commit list
RECURSIVE flushLoop(_)
flushLoop(s) ==
    IF Len(s.p.new) = 0 THEN s
    ELSE IF Len(s.p.buffer) = 0 THEN s
    ELSE IF toLowerCase(s.p.new[1].text) = toLowerCase(s.p.buffer[1].text)
    THEN flushLoop([p |-> [s.p EXCEPT !.lastCommittedWord = s.p.new[1].text,
                                      !.lastCommittedTime = s.p.new[1].end,
                                      !.buffer = Tail(s.p.buffer),
                                      !.new = Tail(s.p.new)],
                    commit |-> Append(s.commit, s.p.new[1])])
    ELSE s

\* a _flush that assigns the commit list to allCommitted instead of pushing
flush_overwrites(p) ==
    LET s == flushLoop([p |-> p, commit |-> <<>>])
    IN [s.p EXCEPT !.buffer = s.p.new,
                   !.new = <<>>,
                   !.committedInBuffer = s.p.committedInBuffer \o s.commit,
                   !.allCommitted = s.commit]

\* a _flush that keeps what is left of the previous buffer
flush_keeps_buffer(p) ==
    LET s == flushLoop([p |-> p, commit |-> <<>>])
    IN [s.p EXCEPT !.buffer = s.p.buffer \o s.p.new,
                   !.new = <<>>,
                   !.committedInBuffer = s.p.committedInBuffer \o s.commit,
                   !.allCommitted = s.p.allCommitted \o s.commit]

\* _flush()
flush(p) ==
    LET s == flushLoop([p |-> p, commit |-> <<>>])
    IN [s.p EXCEPT !.buffer = s.p.new,
                   !.new = <<>>,
                   !.committedInBuffer = s.p.committedInBuffer \o s.commit,
                   !.allCommitted = s.p.allCommitted \o s.commit]

\* _buildResult()
buildResult(p) == [committed |-> join(p.allCommitted), tentative |-> join(p.buffer)]

\* getCommittedText()
getCommittedText(p) == join(p.allCommitted)

\* a process() that inserts and flushes an empty hypothesis too
process_without_guard(p, chunks, audioWindowStart) ==
    flush(insert(p, wordsWithOffset(chunks, audioWindowStart)))

\* process(chunks, audioWindowStart): the processor after the call
process(p, chunks, audioWindowStart) ==
    IF Len(chunks) = 0 THEN p
    ELSE flush(insert(p, wordsWithOffset(chunks, audioWindowStart)))

\* a loop that pushes the words without moving lastCommittedTime
RECURSIVE finalizeLoop_keeps_time(_, _)
finalizeLoop_keeps_time(p, ws) ==
    IF Len(ws) = 0 THEN p
    ELSE finalizeLoop_keeps_time(
             [p EXCEPT !.allCommitted = Append(p.allCommitted, ws[1]),
                       !.lastCommittedWord = ws[1].text],
             Tail(ws))

\* the for loop of finalize over a word list
RECURSIVE finalizeLoop(_, _)
finalizeLoop(p, ws) ==
    IF Len(ws) = 0 THEN p
    ELSE finalizeLoop([p EXCEPT !.allCommitted = Append(p.allCommitted, ws[1]),
                                !.lastCommittedTime = ws[1].end,
                                !.lastCommittedWord = ws[1].text],
                      Tail(ws))

\* a finalize that does not clear this.buffer
finalize_keeps_buffer(p) ==
    IF Len(p.buffer) > 0
    THEN [finalizeLoop(p, p.buffer) EXCEPT
              !.committedInBuffer = p.committedInBuffer \o p.buffer]
    ELSE p

\* a finalize that does not push the words onto committedInBuffer
finalize_skips_lookback(p) ==
    LET p1 == IF Len(p.buffer) > 0
              THEN [finalizeLoop(p, p.buffer) EXCEPT !.buffer = <<>>]
              ELSE p
    IN IF Len(p1.new) > 0
       THEN [finalizeLoop(p1, p1.new) EXCEPT !.new = <<>>]
       ELSE p1

\* finalize(): the processor after the call
finalize(p) ==
    LET p1 == IF Len(p.buffer) > 0
              THEN [finalizeLoop(p, p.buffer) EXCEPT
                        !.committedInBuffer = p.committedInBuffer \o p.buffer,
                        !.buffer = <<>>]
              ELSE p
    IN IF Len(p1.new) > 0
       THEN [finalizeLoop(p1, p1.new) EXCEPT
                 !.committedInBuffer = p1.committedInBuffer \o p1.new,
                 !.new = <<>>]
       ELSE p1

\* the while loop of popCommitted(time)
RECURSIVE popLoop(_, _)
popLoop(cib, time) ==
    IF Len(cib) > 0 /\ cib[1].end <= time THEN popLoop(Tail(cib), time) ELSE cib

\* popCommitted(time)
popCommitted(p, time) ==
    [p EXCEPT !.committedInBuffer = popLoop(p.committedInBuffer, time)]

----------------------------------------------------------------------------
(* The plain-text LocalAgreementProcessor                                  *)
(* A text is held as the sequence of its words: tokenize() of a text that  *)
(* join(" ") and appendText() have built from words gives those words.     *)

\* reset(), and the result of a processor that has not been called
plain_reset ==
    [committedText |-> <<>>, lastWindowStart |-> 0, committedSuffix |-> <<>>,
     previousWords |-> <<>>, segmentCommittedCount |-> 0,
     result |-> [committed |-> <<>>, tentative |-> <<>>]]

NoPlain == plain_reset

\* Array.prototype.slice(0, n)
sliceTo(ws, n) == SubSeq(ws, 1, Min(n, Len(ws)))

\* Array.prototype.slice(n)
sliceFrom(ws, n) == SubSeq(ws, n + 1, Len(ws))

\* Array.prototype.slice(-n), n > 0
sliceEnd(ws, n) == SubSeq(ws, Len(ws) - Min(n, Len(ws)) + 1, Len(ws))

\* countMatchingPrefix: the loop from index i (counted from 1) on
RECURSIVE countMatchingLoop(_, _, _)
countMatchingLoop(words1, words2, i) ==
    IF i <= Min(Len(words1), Len(words2))
       /\ toLowerCase(words1[i]) = toLowerCase(words2[i])
    THEN countMatchingLoop(words1, words2, i + 1)
    ELSE i - 1

countMatchingPrefix(words1, words2) == countMatchingLoop(words1, words2, 1)

\* the loop of _findOverlapLength and _findOverlapLengthWith, from len down
RECURSIVE overlapLoop(_, _, _)
overlapLoop(suffix, newWords, len) ==
    IF len < MIN_OVERLAP_LENGTH THEN 0
    ELSE IF \A i \in 1..len :
                toLowerCase(sliceEnd(suffix, len)[i]) = toLowerCase(newWords[i])
    THEN len
    ELSE overlapLoop(suffix, newWords, len - 1)

\* _findOverlapLengthWith(suffix, newWords); _findOverlapLength(newWords) is
\* the same on this.committedSuffix
findOverlapLengthWith(suffix, newWords) ==
    IF Len(suffix) = 0 \/ Len(newWords) = 0 THEN 0
    ELSE overlapLoop(suffix, newWords, Min(Len(suffix), Len(newWords)))

\* _handleWindowShift(currentWords, audioWindowStart)
plain_handleWindowShift(p, currentWords, audioWindowStart) ==
    LET finalizing == p.segmentCommittedCount > 0 /\ Len(p.previousWords) > 0
        committedText == IF finalizing
                         THEN p.committedText \o sliceTo(p.previousWords, p.segmentCommittedCount)
                         ELSE p.committedText
        committedSuffix == IF finalizing THEN sliceEnd(committedText, SUFFIX_SIZE)
                           ELSE p.committedSuffix
        newWords == sliceFrom(currentWords,
                              findOverlapLengthWith(committedSuffix, currentWords))
    IN [committedText |-> committedText, lastWindowStart |-> audioWindowStart,
        committedSuffix |-> committedSuffix, previousWords |-> newWords,
        segmentCommittedCount |-> 0,
        result |-> [committed |-> committedText, tentative |-> newWords]]

\* _buildResultWithSegment(currentWords)
plain_buildResultWithSegment(p, currentWords) ==
    LET fullCommitted == p.committedText \o sliceTo(currentWords, p.segmentCommittedCount)
        tentativeWords == sliceFrom(currentWords, Min(p.segmentCommittedCount, Len(currentWords)))
        tempSuffix == sliceEnd(fullCommitted, SUFFIX_SIZE)
    IN [committed |-> fullCommitted,
        tentative |-> sliceFrom(tentativeWords,
                                findOverlapLengthWith(tempSuffix, tentativeWords))]

\* _handleSameWindow(currentWords, audioWindowStart)
plain_handleSameWindow(p, currentWords, audioWindowStart) ==
    LET matchCount == countMatchingPrefix(p.previousWords, currentWords)
        q == [p EXCEPT !.lastWindowStart = audioWindowStart,
                       !.segmentCommittedCount = IF matchCount > @ THEN matchCount ELSE @,
                       !.previousWords = currentWords]
    IN [q EXCEPT !.result = plain_buildResultWithSegment(q, currentWords)]

\* process(transcription, audioWindowStart), currentWords being
\* tokenize(transcription)
plain_process(p, currentWords, audioWindowStart) ==
    IF Len(currentWords) = 0
    THEN [p EXCEPT !.result = [committed |-> p.committedText, tentative |-> <<>>]]
    ELSE IF audioWindowStart > p.lastWindowStart + WINDOW_SHIFT_THRESHOLD
    THEN plain_handleWindowShift(p, currentWords, audioWindowStart)
    ELSE plain_handleSameWindow(p, currentWords, audioWindowStart)

----------------------------------------------------------------------------
(* The window of audio sent to the worker *)

\* Math.ceil(a / b) for a >= 0, b > 0
ceilDiv(a, b) == (a + b - 1) \div b

\* a window shift that rounds the number of shifts down
windowOf_rounds_down(length) ==
    LET numShifts == IF length > MAX_SAMPLES
                     THEN (length - MAX_SAMPLES) \div WINDOW_SHIFT_SAMPLES ELSE 0
        samplesToSkip == numShifts * WINDOW_SHIFT_SAMPLES
    IN [length |-> length,
        samplesToSkip |-> samplesToSkip,
        audioWindowStart |-> samplesToSkip \div WHISPER_SAMPLING_RATE,
        sent |-> Min(length, samplesToSkip + MAX_SAMPLES) - samplesToSkip]

\* the window shift of processAudioChunks and of getFinalizePayload on a
\* recording of the given length: the samples skipped, audioWindowStart in
\* seconds, and the length of allAudio.slice(samplesToSkip, samplesToSkip +
\* MAX_SAMPLES), which is sent
windowOf(length) ==
    LET numShifts == IF length > MAX_SAMPLES
                     THEN ceilDiv(length - MAX_SAMPLES, WINDOW_SHIFT_SAMPLES) ELSE 0
        samplesToSkip == numShifts * WINDOW_SHIFT_SAMPLES
    IN [length |-> length,
        samplesToSkip |-> samplesToSkip,
        audioWindowStart |-> samplesToSkip \div WHISPER_SAMPLING_RATE,
        sent |-> Min(length, samplesToSkip + MAX_SAMPLES) - samplesToSkip]

----------------------------------------------------------------------------
(* The state machine of one processor *)

SetProc(p) ==
    /\ committedInBuffer' = p.committedInBuffer
    /\ buffer' = p.buffer
    /\ new' = p.new
    /\ lastCommittedTime' = p.lastCommittedTime
    /\ lastCommittedWord' = p.lastCommittedWord
    /\ allCommitted' = p.allCommitted

\* the lower-cased word texts of a hypothesis
textsOf(chunks) == {toLowerCase(chunks[i].text) : i \in 1..Len(chunks)}

\* what is remembered of a call: its name, whether the call before it had the
\* same name, the length of the hypothesis given (of popCommitted, the time
\* given), this.new as _insert left it, and the length of this.buffer when
\* the call began
Called(op, given, inserted) ==
    [op |-> op, again |-> (call.op = op), given |-> given,
     inserted |-> inserted, prevLen |-> Len(buffer)]

NoPasses == [cur |-> {}, prev |-> {}, prevNonEmpty |-> {}]

NoHypothesis == [chunks |-> <<>>, audioWindowStart |-> 0]

\* no handleGenerate call awaits a decode; dropped tells whether a
\* 'generate' message has been turned away since the last one was accepted,
\* stale whether a 'reset' message has been handled since the decode began
NoGenerate == [pc |-> "idle", audioWindowStart |-> 0, dropped |-> FALSE,
               stale |-> FALSE]

\* a handleFinalize call that has returned, or has not been made
NoFinalize == [pc |-> "idle", enough |-> FALSE, tagging |-> FALSE,
               audioWindowStart |-> 0, waited |-> FALSE]

FinalizeIds == 1..MaxFinalizes

\* a handleLoad call that has returned, or has not been made
NoLoadCall == [pc |-> "idle", modelId |-> null, device |-> null,
               taggingEnabled |-> FALSE]

LoadIds == 1..MaxLoads

\* the worker before any 'load': apple stands for isAppleDevice(); posted is
\* the status last posted by handleLoad, failures the number of load attempts
\* that have failed since 'ready' or 'error' was last posted, latest the model
\* of the last 'load' message, race whether a load for another model has
\* arrived during a load and whether a load has failed since
NoLoad ==
    [apple |-> FALSE, transcriber |-> null, currentModelId |-> null,
     currentDevice |-> null, pendingModelId |-> null, isLoading |-> FALSE,
     loadAttempts |-> 0, calls |-> [id \in LoadIds |-> NoLoadCall],
     posted |-> null, failures |-> 0, latest |-> null, race |-> "none"]

\* nothing recorded; the window cut from it
NoRecorded == windowOf(0)

\* the hook as it is mounted: recording, nothing saved
NoHook == [pc |-> "recording", isProcessing |-> FALSE, busy |-> FALSE,
           saved |-> null]

\* the variables that the processor and the worker's handlers of generate,
\* finalize and reset do not touch, as they are at the start
InitOther ==
    /\ hook = NoHook
    /\ load = NoLoad
    /\ plain = NoPlain
    /\ recorded = NoRecorded

Init ==
    /\ committedInBuffer = <<>>
    /\ buffer = <<>>
    /\ new = <<>>
    /\ lastCommittedTime = 0
    /\ lastCommittedWord = null
    /\ allCommitted = <<>>
    /\ result = [committed |-> "", tentative |-> ""]
    /\ call = [op |-> "new", again |-> FALSE, given |-> 0, inserted |-> <<>>,
               prevLen |-> 0]
    /\ passes = NoPasses
    /\ hypothesis = NoHypothesis
    /\ isProcessing = FALSE
    /\ pendingFinalize = 0
    /\ generateCall = NoGenerate
    /\ finalizeCalls = [id \in FinalizeIds |-> NoFinalize]
    /\ outbox = <<>>
    /\ committedTextRef = ""
    /\ tentativeTextRef = ""
    /\ InitOther

\* a call of process(chunks, audioWindowStart)
ProcessCall(chunks, audioWindowStart) ==
    LET p == process(Proc, chunks, audioWindowStart)
    IN /\ Len(p.allCommitted) <= MaxCommitted
       /\ SetProc(p)
       /\ result' = buildResult(p)
       /\ call' = Called("process", Len(chunks),
                         IF Len(chunks) = 0 THEN <<>>
                         ELSE insert(Proc, wordsWithOffset(chunks, audioWindowStart)).new)

\* agreementProcessor.process(chunks, audioWindowStart)
Process ==
    /\ \E chunks \in Hypotheses, o \in Offsets : ProcessCall(chunks, o)
    /\ UNCHANGED <<passes, hypothesis, workerVars, otherVars>>

\* agreementProcessor.finalize()
Finalize ==
    LET p == finalize(Proc)
    IN /\ Len(p.allCommitted) <= MaxCommitted
       /\ SetProc(p)
       /\ result' = buildResult(p)
       /\ call' = Called("finalize", 0, <<>>)
       /\ UNCHANGED <<passes, hypothesis, workerVars, otherVars>>

\* agreementProcessor.popCommitted(time)
PopCommitted ==
    /\ \E time \in 0..MaxPopTime :
           /\ SetProc(popCommitted(Proc, time))
           /\ call' = Called("popCommitted", time, <<>>)
    /\ UNCHANGED <<result, passes, hypothesis, workerVars, otherVars>>

\* agreementProcessor.reset()
Reset ==
    /\ SetProc(reset(Proc))
    /\ call' = Called("reset", 0, <<>>)
    /\ UNCHANGED <<result, passes, hypothesis, workerVars, otherVars>>

Next ==
    \/ Process
    \/ Finalize
    \/ PopCommitted
    \/ Reset

Spec == Init /\ [][Next]_vars

\* process() with the word texts of the hypotheses of this call, of the
\* process() call before it, and of the last one before it that was not empty
ProcessPass ==
    \E chunks \in Hypotheses, o \in Offsets :
        /\ ProcessCall(chunks, o)
        /\ passes' = [cur |-> textsOf(chunks),
                      prev |-> passes.cur,
                      prevNonEmpty |-> IF passes.cur # {} THEN passes.cur
                                       ELSE passes.prevNonEmpty]
        /\ UNCHANGED <<hypothesis, workerVars, otherVars>>

NextPasses ==
    \/ ProcessPass
    \/ Finalize
    \/ Reset

SpecPasses == Init /\ [][NextPasses]_vars

\* the hypotheses of a decode in one letter case
WordHypotheses == {chunksOf(ts) : ts \in SeqsUpTo({"a", "b"}, MaxHypLen)}

\* audioWindowStart values, one of them more than the 1 s of the n-gram
\* window after the others
WordOffsets == Offsets \cup {NGRAM_WINDOW + 1}

\* process() with the chunks and the audioWindowStart it was given
ProcessWords ==
    \E chunks \in WordHypotheses, o \in WordOffsets :
        /\ ProcessCall(chunks, o)
        /\ hypothesis' = [chunks |-> chunks, audioWindowStart |-> o]
        /\ UNCHANGED <<passes, workerVars, otherVars>>

NextWords ==
    \/ ProcessWords
    \/ Finalize
    \/ Reset

SpecWords == Init /\ [][NextWords]_vars

\* the chunks of a decode whose last chunk has no end timestamp, which
\* _processResult reads as end 0
openEnded(texts) ==
    [i \in 1..Len(texts) |->
        [text |-> texts[i], start |-> i - 1,
         end |-> IF i = Len(texts) THEN 0 ELSE i]]

OpenEndedHypotheses ==
    {openEnded(ts) : ts \in SeqsUpTo({"a", "b"}, MaxHypLen) \ {<<>>}}

\* process() on the chunks of such a decode
ProcessOpenEnded ==
    \E chunks \in OpenEndedHypotheses, o \in Offsets :
        /\ ProcessCall(chunks, o)
        /\ hypothesis' = [chunks |-> chunks, audioWindowStart |-> o]
        /\ UNCHANGED <<passes, workerVars, otherVars>>

NextOpenEnded ==
    \/ ProcessWords
    \/ ProcessOpenEnded
    \/ Finalize
    \/ Reset

SpecOpenEnded == Init /\ [][NextOpenEnded]_vars

\* the hypotheses of a long utterance of one repeated word
LongHypotheses ==
    {chunksOf([i \in 1..n |-> "a"]) : n \in {0} \cup ((MaxLong - LongSpread)..MaxLong)}

\* process() on a long hypothesis
ProcessLong ==
    /\ \E chunks \in LongHypotheses :
           LET p == process(Proc, chunks, 0)
           IN /\ Len(p.allCommitted) <= MaxLong
              /\ SetProc(p)
              /\ result' = buildResult(p)
              /\ call' = Called("process", Len(chunks),
                                IF Len(chunks) = 0 THEN <<>>
                                ELSE insert(Proc, wordsWithOffset(chunks, 0)).new)
    /\ UNCHANGED <<passes, hypothesis, workerVars, otherVars>>

NextLong == ProcessLong

SpecLong == Init /\ [][NextLong]_vars

\* the words committed before the call whose n-gram loop is examined
Tails == {chunksOf(ts) : ts \in SeqsUpTo({"a", "b"}, MaxTail)}

\* the hypotheses of that call, with capital letters where the committed
\* words have small ones
NewHypotheses == {chunksOf(ts) : ts \in SeqsUpTo({"A", "b"}, MaxNew)}

\* the audioWindowStart values of that call
NgramOffsets == 0..MaxTail

\* a processor that was given the words of a tail once and then finalized
InitNgram ==
    /\ \E tail \in Tails :
           LET p == finalize(process(constructor, tail, 0))
           IN /\ committedInBuffer = p.committedInBuffer
              /\ buffer = p.buffer
              /\ new = p.new
              /\ lastCommittedTime = p.lastCommittedTime
              /\ lastCommittedWord = p.lastCommittedWord
              /\ allCommitted = p.allCommitted
    /\ result = [committed |-> join(allCommitted), tentative |-> ""]
    /\ call = [op |-> "finalize", again |-> FALSE, given |-> 0,
               inserted |-> <<>>, prevLen |-> 0]
    /\ passes = NoPasses
    /\ hypothesis = NoHypothesis
    /\ isProcessing = FALSE
    /\ pendingFinalize = 0
    /\ generateCall = NoGenerate
    /\ finalizeCalls = [id \in FinalizeIds |-> NoFinalize]
    /\ outbox = <<>>
    /\ committedTextRef = ""
    /\ tentativeTextRef = ""
    /\ InitOther

\* the first process() call after that
ProcessNgram ==
    /\ call.op = "finalize"
    /\ \E chunks \in NewHypotheses, o \in NgramOffsets :
           LET p == process(Proc, chunks, o)
           IN /\ SetProc(p)
              /\ result' = buildResult(p)
              /\ call' = Called("process", Len(chunks),
                                IF Len(chunks) = 0 THEN <<>>
                                ELSE insert(Proc, wordsWithOffset(chunks, o)).new)
              /\ hypothesis' = [chunks |-> chunks, audioWindowStart |-> o]
    /\ UNCHANGED <<passes, workerVars, otherVars>>

NextNgram == ProcessNgram

SpecNgram == InitNgram /\ [][NextNgram]_vars

----------------------------------------------------------------------------
(* The worker and the hook that receives its messages *)

\* the hypotheses transcriber.transcribe returns to the worker
DecodedHypotheses == {chunksOf(ts) : ts \in SeqsUpTo({"a", "b"}, MaxDecodeLen)}

\* the audioWindowStart the hook sends while the recording fits one window
WindowStarts == {0}

\* the 'update' message of a round
Update(committed, tentative) ==
    [status |-> "update", committed |-> committed, tentative |-> tentative]

\* the 'finalized' message
Finalized(committed) ==
    [status |-> "finalized", committed |-> committed, tentative |-> ""]

\* the continuation of an awaited promise runs before any other handler
NoMicrotask == \A id \in FinalizeIds : finalizeCalls[id].pc # "resumed"

\* the end of handleGenerate: release the flag, resolve a waiting finalize;
\* outcome tells whether the decode returned or threw
GenerateEnd(outcome) ==
    /\ isProcessing' = FALSE
    /\ generateCall' = [pc |-> outcome, audioWindowStart |-> 0,
                        dropped |-> generateCall.dropped, stale |-> FALSE]
    /\ pendingFinalize' = 0
    /\ finalizeCalls' =
           IF pendingFinalize # 0
           THEN [finalizeCalls EXCEPT ![pendingFinalize].pc = "resumed"]
           ELSE finalizeCalls

\* a handleGenerate that does not look at isProcessing
MsgGenerate_ignores_flag ==
    /\ NoMicrotask
    /\ \E o \in WindowStarts :
           generateCall' = [pc |-> "transcribing", audioWindowStart |-> o,
                            dropped |-> FALSE, stale |-> FALSE]
    /\ isProcessing' = TRUE
    /\ UNCHANGED <<procVars, result, call, passes, hypothesis, otherVars, pendingFinalize,
                   finalizeCalls, outbox, committedTextRef, tentativeTextRef>>

\* 'generate' message: handleGenerate up to the await of the decode
MsgGenerate ==
    /\ NoMicrotask
    /\ ~isProcessing
    /\ \E o \in WindowStarts :
           generateCall' = [pc |-> "transcribing", audioWindowStart |-> o,
                            dropped |-> FALSE, stale |-> FALSE]
    /\ isProcessing' = TRUE
    /\ UNCHANGED <<procVars, result, call, passes, hypothesis, otherVars, pendingFinalize,
                   finalizeCalls, outbox, committedTextRef, tentativeTextRef>>

\* 'generate' message while isProcessing is set: handleGenerate returns
MsgGenerateBusy ==
    /\ NoMicrotask
    /\ isProcessing
    /\ generateCall' = [generateCall EXCEPT !.dropped = TRUE]
    /\ UNCHANGED <<procVars, result, call, passes, hypothesis, otherVars, isProcessing,
                   pendingFinalize, finalizeCalls, outbox, committedTextRef,
                   tentativeTextRef>>

\* handleGenerate after the decode has returned chunks
GenerateReturn ==
    /\ NoMicrotask
    /\ generateCall.pc = "transcribing"
    /\ Len(outbox) < MaxOutbox
    /\ \E chunks \in DecodedHypotheses :
           LET p == process(Proc, chunks, generateCall.audioWindowStart)
               r == buildResult(p)
           IN /\ Len(p.allCommitted) <= MaxCommitted
              /\ SetProc(p)
              /\ result' = r
              /\ outbox' = Append(outbox, Update(r.committed, r.tentative))
    /\ GenerateEnd("returned")
    /\ UNCHANGED <<call, passes, hypothesis, otherVars, committedTextRef, tentativeTextRef>>

\* a catch block that leaves isProcessing set
GenerateThrow_stays_busy ==
    /\ NoMicrotask
    /\ generateCall.pc = "transcribing"
    /\ Len(outbox) < MaxOutbox
    /\ outbox' = Append(outbox, Update(getCommittedText(Proc), ""))
    /\ generateCall' = [pc |-> "threw", audioWindowStart |-> 0,
                        dropped |-> generateCall.dropped, stale |-> FALSE]
    /\ UNCHANGED <<procVars, result, call, passes, hypothesis, otherVars, isProcessing,
                   pendingFinalize, finalizeCalls, committedTextRef,
                   tentativeTextRef>>

\* handleGenerate after the decode has thrown
GenerateThrow ==
    /\ NoMicrotask
    /\ generateCall.pc = "transcribing"
    /\ Len(outbox) < MaxOutbox
    /\ outbox' = Append(outbox, Update(getCommittedText(Proc), ""))
    /\ GenerateEnd("threw")
    /\ UNCHANGED <<procVars, result, call, passes, hypothesis, otherVars, committedTextRef,
                   tentativeTextRef>>

\* handleFinalize, for the call c, from agreementProcessor.finalize() on,
\* p0 being the processor it finds; tagging stands for taggingEnabled and a
\* final text long enough to be tagged
FinalizeTail(id, c, p0) ==
    LET p == finalize(p0)
        r == buildResult(p)
    IN /\ Len(p.allCommitted) <= MaxCommitted
       /\ SetProc(p)
       /\ result' = r
       /\ IF c.tagging
          THEN /\ Len(outbox) < MaxOutbox
               /\ outbox' = Append(outbox, Update(r.committed, ""))
               /\ isProcessing' = TRUE
               /\ finalizeCalls' = [finalizeCalls EXCEPT ![id] = [c EXCEPT !.pc = "tagging"]]
          ELSE /\ Len(outbox) + 1 < MaxOutbox
               /\ outbox' = outbox \o <<Update(r.committed, ""), Finalized(r.committed)>>
               /\ isProcessing' = FALSE
               /\ finalizeCalls' = [finalizeCalls EXCEPT ![id] = NoFinalize]

\* handleFinalize, for the call c, from isProcessing = true on; enough
\* stands for audio of at least 8000 samples
FinalizeBegin(id, c) ==
    IF c.enough
    THEN /\ isProcessing' = TRUE
         /\ finalizeCalls' = [finalizeCalls EXCEPT ![id] = [c EXCEPT !.pc = "transcribing"]]
         /\ UNCHANGED <<procVars, result, outbox>>
    ELSE FinalizeTail(id, c, Proc)

\* a handleFinalize that goes on at once although isProcessing is set
MsgFinalize_does_not_wait ==
    /\ NoMicrotask
    /\ \E id \in FinalizeIds, enough \in BOOLEAN, tagging \in BOOLEAN, o \in WindowStarts :
           LET c == [pc |-> "waiting", enough |-> enough, tagging |-> tagging,
                     audioWindowStart |-> o, waited |-> FALSE]
           IN /\ finalizeCalls[id].pc = "idle"
              /\ \A other \in FinalizeIds : other < id => finalizeCalls[other].pc # "idle"
              /\ FinalizeBegin(id, c)
              /\ UNCHANGED pendingFinalize
    /\ UNCHANGED <<call, passes, hypothesis, otherVars, generateCall, committedTextRef, tentativeTextRef>>

\* 'finalize' message: handleFinalize up to its first await
MsgFinalize ==
    /\ NoMicrotask
    /\ \E id \in FinalizeIds, enough \in BOOLEAN, tagging \in BOOLEAN, o \in WindowStarts :
           LET c == [pc |-> "waiting", enough |-> enough, tagging |-> tagging,
                     audioWindowStart |-> o, waited |-> isProcessing]
           IN /\ finalizeCalls[id].pc = "idle"
              /\ \A other \in FinalizeIds : other < id => finalizeCalls[other].pc # "idle"
              /\ IF isProcessing
                 THEN /\ finalizeCalls' = [finalizeCalls EXCEPT ![id] = c]
                      /\ pendingFinalize' = id
                      /\ UNCHANGED <<procVars, result, isProcessing, outbox>>
                 ELSE /\ FinalizeBegin(id, c)
                      /\ UNCHANGED pendingFinalize
    /\ UNCHANGED <<call, passes, hypothesis, otherVars, generateCall, committedTextRef, tentativeTextRef>>

\* handleFinalize resumed by the handleGenerate that resolved pendingFinalize
FinalizeResume ==
    /\ \E id \in FinalizeIds :
           /\ finalizeCalls[id].pc = "resumed"
           /\ FinalizeBegin(id, finalizeCalls[id])
    /\ UNCHANGED <<call, passes, hypothesis, otherVars, pendingFinalize, generateCall,
                   committedTextRef, tentativeTextRef>>

\* handleFinalize after its decode has returned chunks
FinalizeReturn ==
    /\ NoMicrotask
    /\ \E id \in FinalizeIds, chunks \in DecodedHypotheses :
           /\ finalizeCalls[id].pc = "transcribing"
           /\ FinalizeTail(id, finalizeCalls[id],
                           process(Proc, chunks, finalizeCalls[id].audioWindowStart))
    /\ UNCHANGED <<call, passes, hypothesis, otherVars, pendingFinalize, generateCall,
                   committedTextRef, tentativeTextRef>>

\* handleFinalize after its decode has thrown: the catch block
FinalizeThrow ==
    /\ NoMicrotask
    /\ \E id \in FinalizeIds :
           /\ finalizeCalls[id].pc = "transcribing"
           /\ LET p == finalize(Proc)
                  r == buildResult(p)
              IN /\ Len(p.allCommitted) <= MaxCommitted
                 /\ SetProc(p)
                 /\ result' = r
                 /\ Len(outbox) + 1 < MaxOutbox
                 /\ outbox' = outbox \o <<Update(r.committed, ""), Finalized(r.committed)>>
           /\ finalizeCalls' = [finalizeCalls EXCEPT ![id] = NoFinalize]
    /\ isProcessing' = FALSE
    /\ UNCHANGED <<call, passes, hypothesis, otherVars, pendingFinalize, generateCall,
                   committedTextRef, tentativeTextRef>>

\* handleFinalize after topic generation has returned or thrown
FinalizeTagged ==
    /\ NoMicrotask
    /\ Len(outbox) < MaxOutbox
    /\ \E id \in FinalizeIds :
           /\ finalizeCalls[id].pc = "tagging"
           /\ finalizeCalls' = [finalizeCalls EXCEPT ![id] = NoFinalize]
    /\ outbox' = Append(outbox, Finalized(result.committed))
    /\ isProcessing' = FALSE
    /\ UNCHANGED <<procVars, result, call, passes, hypothesis, otherVars, pendingFinalize,
                   generateCall, committedTextRef, tentativeTextRef>>

\* 'reset' message, posted by startRecording of a newly mounted hook or by
\* cancelRecording, which leaves the screen: handleReset, and the refs of
\* the hook that is mounted next
MsgReset ==
    /\ NoMicrotask
    /\ SetProc(reset(Proc))
    /\ committedTextRef' = ""
    /\ tentativeTextRef' = ""
    /\ generateCall' = [generateCall EXCEPT !.stale = (generateCall.pc = "transcribing")]
    /\ UNCHANGED <<result, call, passes, hypothesis, otherVars, isProcessing,
                   pendingFinalize, finalizeCalls, outbox>>

\* (committedTextRef.current + ' ' + tentativeTextRef.current).trim()
finalTranscript(committed, tentative) ==
    IF committed = "" THEN tentative
    ELSE IF tentative = "" THEN committed
    ELSE committed \o " " \o tentative

AUDIO_ONLY == "[Transcription failed - audio only]"

\* what is saved when there is no transcript: the audio alone if there are
\* chunks and the user agrees, else nothing
Fallbacks == {AUDIO_ONLY, null}

\* step 4 of stopRecording, with the refs as it finds them
save(h, committed, tentative, fallback) ==
    [h EXCEPT !.pc = "saved",
              !.saved = IF finalTranscript(committed, tentative) # ""
                        THEN finalTranscript(committed, tentative)
                        ELSE fallback]

\* handleMessage of useRecording on the oldest posted message; a stopRecording
\* whose promise the message resolves goes on to its next await
HandleMessage ==
    /\ Len(outbox) > 0
    /\ LET m == Head(outbox)
           committed == IF m.status = "update" \/ (m.status = "finalized" /\ m.committed # "")
                        THEN m.committed ELSE committedTextRef
           tentative == IF m.status = "update" THEN m.tentative
                        ELSE IF m.status = "finalized" /\ m.committed # "" THEN ""
                        ELSE tentativeTextRef
       IN /\ committedTextRef' = committed
          /\ tentativeTextRef' = tentative
          /\ \E fallback \in Fallbacks :
                 hook' = CASE m.status = "start" -> [hook EXCEPT !.isProcessing = TRUE]
                           [] m.status = "complete" ->
                                  [hook EXCEPT !.isProcessing = FALSE,
                                               !.pc = IF @ = "awaitProcessing"
                                                      THEN "awaitPayload" ELSE @]
                           [] m.status = "finalized" ->
                                  IF hook.pc = "awaitFinalized"
                                  THEN save([hook EXCEPT !.isProcessing = FALSE],
                                            committed, tentative, fallback)
                                  ELSE [hook EXCEPT !.isProcessing = FALSE]
                           [] OTHER -> hook
    /\ outbox' = Tail(outbox)
    /\ UNCHANGED <<procVars, result, call, passes, hypothesis, isProcessing,
                   pendingFinalize, generateCall, finalizeCalls, load, plain,
                   recorded>>

NextWorker ==
    \/ MsgGenerate
    \/ MsgGenerateBusy
    \/ GenerateReturn
    \/ GenerateThrow
    \/ MsgFinalize
    \/ FinalizeResume
    \/ FinalizeReturn
    \/ FinalizeThrow
    \/ FinalizeTagged
    \/ MsgReset
    \/ HandleMessage

SpecWorker == Init /\ [][NextWorker]_vars

\* one recording: the worker and the hook between two 'reset' messages
NextRecording ==
    \/ MsgGenerate
    \/ MsgGenerateBusy
    \/ GenerateReturn
    \/ GenerateThrow
    \/ MsgFinalize
    \/ FinalizeResume
    \/ FinalizeReturn
    \/ FinalizeThrow
    \/ FinalizeTagged
    \/ HandleMessage

SpecRecording == Init /\ [][NextRecording]_vars

\* one recording in which no decode and no topic generation stays pending for
\* ever: the step that ends it by a throw, possible as long as it is pending,
\* does not stay possible for ever, whether it is that step or a return that
\* ends it; a resolved promise is resumed and a posted message is handled
SpecRecordingFair ==
    /\ Init
    /\ [][NextRecording]_vars
    /\ WF_vars(GenerateThrow)
    /\ WF_vars(FinalizeResume)
    /\ WF_vars(FinalizeThrow)
    /\ WF_vars(FinalizeTagged)
    /\ WF_vars(HandleMessage)

----------------------------------------------------------------------------
(* stopRecording of the hook, with a worker that posts what it likes *)

\* the messages of the worker that the hook handles
PostedMessages ==
    {[status |-> "start", committed |-> "", tentative |-> ""],
     [status |-> "complete", committed |-> "", tentative |-> ""],
     Update("", "a"), Update("a", ""), Finalized("a"), Finalized("")}

\* self.postMessage of the worker
PostMessage ==
    /\ Len(outbox) < MaxOutbox
    /\ \E m \in PostedMessages : outbox' = Append(outbox, m)
    /\ UNCHANGED <<procVars, result, call, passes, hypothesis, isProcessing,
                   pendingFinalize, generateCall, finalizeCalls,
                   committedTextRef, tentativeTextRef, otherVars>>

\* stopRecording after its first await: the wait for in-progress processing
\* is entered if isProcessing was set when stopRecording was created
afterData(h) ==
    [h EXCEPT !.pc = IF h.busy THEN "awaitProcessing" ELSE "awaitPayload"]

\* stopRecording up to its first await; recording stands for
\* recorderRef.current?.state === 'recording'
StopRecording ==
    /\ hook.pc = "recording"
    /\ \E recording \in BOOLEAN :
           LET h == [hook EXCEPT !.busy = hook.isProcessing]
           IN hook' = IF recording THEN [h EXCEPT !.pc = "awaitData"]
                      ELSE afterData(h)
    /\ UNCHANGED <<procVars, result, call, passes, hypothesis, workerVars,
                   load, plain, recorded>>

\* onDataAvailable with data, while stopRecording awaits finalDataPromise
OnDataAvailable ==
    /\ hook.pc = "awaitData"
    /\ hook' = afterData(hook)
    /\ UNCHANGED <<procVars, result, call, passes, hypothesis, workerVars,
                   load, plain, recorded>>

\* the 2000 ms timer of finalDataPromise
DataTimeout ==
    /\ hook.pc = "awaitData"
    /\ hook' = afterData(hook)
    /\ UNCHANGED <<procVars, result, call, passes, hypothesis, workerVars,
                   load, plain, recorded>>

\* the 10000 ms timer of the wait for in-progress processing
ProcessingTimeout ==
    /\ hook.pc = "awaitProcessing"
    /\ hook' = [hook EXCEPT !.pc = "awaitPayload"]
    /\ UNCHANGED <<procVars, result, call, passes, hypothesis, workerVars,
                   load, plain, recorded>>

\* strategy.getFinalizePayload() has returned: null, or a payload, which is
\* sent to the worker as 'finalize'
PayloadReturn ==
    /\ hook.pc = "awaitPayload"
    /\ \E payload \in BOOLEAN, fallback \in Fallbacks :
           hook' = IF payload THEN [hook EXCEPT !.pc = "awaitFinalized"]
                   ELSE save(hook, committedTextRef, tentativeTextRef, fallback)
    /\ UNCHANGED <<procVars, result, call, passes, hypothesis, workerVars,
                   load, plain, recorded>>

\* strategy.getFinalizePayload() has thrown, decodeAudioBlob having rejected:
\* stopRecording, which does not catch, ends there
PayloadThrow ==
    /\ hook.pc = "awaitPayload"
    /\ hook' = [hook EXCEPT !.pc = "threw"]
    /\ UNCHANGED <<procVars, result, call, passes, hypothesis, workerVars,
                   load, plain, recorded>>

\* the timer of finalizationPromise
FinalizeTimeout ==
    /\ hook.pc = "awaitFinalized"
    /\ \E fallback \in Fallbacks :
           hook' = save(hook, committedTextRef, tentativeTextRef, fallback)
    /\ UNCHANGED <<procVars, result, call, passes, hypothesis, workerVars,
                   load, plain, recorded>>

NextStop ==
    \/ PostMessage
    \/ HandleMessage
    \/ StopRecording
    \/ OnDataAvailable
    \/ DataTimeout
    \/ ProcessingTimeout
    \/ PayloadReturn
    \/ PayloadThrow
    \/ FinalizeTimeout

\* timers fire, and decodeAudioBlob returns or throws
SpecStop ==
    /\ Init
    /\ [][NextStop]_vars
    /\ WF_vars(DataTimeout)
    /\ WF_vars(ProcessingTimeout)
    /\ WF_vars(FinalizeTimeout)
    /\ WF_vars(PayloadReturn \/ PayloadThrow)

----------------------------------------------------------------------------
(* The state machine of the plain-text processor *)

\* the transcriptions given to the processor, as their words
Transcriptions == SeqsUpTo(Texts, MaxPlainLen)

\* the audioWindowStart given with them: the window of the call before, or
\* one that has shifted
PlainOffsets == {0, WINDOW_SHIFT_THRESHOLD + 1, 2 * (WINDOW_SHIFT_THRESHOLD + 1)}

\* process(transcription, audioWindowStart) of the plain-text processor
PlainProcess ==
    /\ \E currentWords \in Transcriptions, o \in PlainOffsets :
           LET p == plain_process(plain, currentWords, o)
           IN /\ Len(p.result.committed) <= MaxPlainCommitted
              /\ plain' = p
    /\ UNCHANGED <<procVars, result, call, passes, hypothesis, workerVars,
                   hook, load, recorded>>

\* reset() of the plain-text processor
PlainReset ==
    /\ plain' = plain_reset
    /\ UNCHANGED <<procVars, result, call, passes, hypothesis, workerVars,
                   hook, load, recorded>>

NextPlain ==
    \/ PlainProcess
    \/ PlainReset

SpecPlain == Init /\ [][NextPlain]_vars

----------------------------------------------------------------------------
(* Loading of the model by the worker *)

\* the target models and the target devices of 'load' messages
Models == {"X", "Y"}

Devices == {"webgpu", "wasm"}

\* handleLoad up to its first await, for the call id: l is the state of the
\* worker, modelId the target model and device the target device
handleLoad(l, id, modelId, taggingEnabled, device) ==
    IF l.transcriber # null /\ l.currentModelId = modelId
       /\ l.currentDevice = device /\ ~l.isLoading
    THEN [l EXCEPT !.posted = "ready", !.failures = 0, !.calls[id] = NoLoadCall]
    ELSE LET restart == l.isLoading /\ l.pendingModelId # modelId
             m == IF restart
                  THEN [l EXCEPT !.transcriber = null, !.currentModelId = null,
                                 !.currentDevice = null, !.isLoading = FALSE,
                                 !.loadAttempts = 0,
                                 !.race = "open"]
                  ELSE l
             targetDevice == IF m.loadAttempts > 0 /\ device = "webgpu"
                             THEN "wasm" ELSE device
         IN IF m.isLoading /\ m.pendingModelId = modelId
            THEN [m EXCEPT !.calls[id] = NoLoadCall]
            ELSE IF m.loadAttempts >= MAX_LOAD_ATTEMPTS
            THEN [m EXCEPT !.posted = "error", !.failures = 0,
                           !.calls[id] = NoLoadCall]
            ELSE [m EXCEPT !.isLoading = TRUE, !.pendingModelId = modelId,
                           !.loadAttempts = @ + 1, !.posted = "loading",
                           !.calls[id] = [pc |-> "loading", modelId |-> modelId,
                                          device |-> targetDevice,
                                          taggingEnabled |-> taggingEnabled]]

\* the catch block of handleLoad, for the call id
handleLoadCatch(l, id) ==
    LET c == l.calls[id]
        m == [l EXCEPT !.isLoading = FALSE, !.pendingModelId = null,
                       !.transcriber = null, !.currentModelId = null,
                       !.currentDevice = null,
                       !.race = IF @ = "open" THEN "failed" ELSE @]
    IN IF ~l.apple /\ l.loadAttempts < MAX_LOAD_ATTEMPTS
       THEN [m EXCEPT !.failures = @ + 1,
                      !.calls[id] = [c EXCEPT !.pc = "scheduled", !.device = "wasm"]]
       ELSE [m EXCEPT !.posted = "error", !.failures = 0,
                      !.calls[id] = NoLoadCall]

\* the end of the try block of handleLoad, for the call id
handleLoadReady(l, id) ==
    [l EXCEPT !.isLoading = FALSE, !.pendingModelId = null,
              !.loadAttempts = 0, !.posted = "ready", !.failures = 0,
              !.calls[id] = NoLoadCall]

\* 'load' message: handleLoad up to its first await
MsgLoad ==
    /\ \E id \in LoadIds, modelId \in Models, taggingEnabled \in BOOLEAN,
          device \in Devices :
           /\ load.calls[id].pc = "idle"
           /\ \A other \in LoadIds : other < id => load.calls[other].pc # "idle"
           /\ load' = handleLoad([load EXCEPT
                                      !.latest = modelId,
                                      !.race = IF \A c \in LoadIds : load.calls[c].pc = "idle"
                                               THEN "none" ELSE @],
                                  id, modelId, taggingEnabled, device)
    /\ UNCHANGED <<procVars, result, call, passes, hypothesis, workerVars,
                   hook, plain, recorded>>

\* the 500 ms timer of the catch block: handleLoad again, on "wasm"
LoadRetry ==
    /\ \E id \in LoadIds :
           /\ load.calls[id].pc = "scheduled"
           /\ load' = handleLoad(load, id, load.calls[id].modelId,
                                  load.calls[id].taggingEnabled, "wasm")
    /\ UNCHANGED <<procVars, result, call, passes, hypothesis, workerVars,
                   hook, plain, recorded>>

\* WhisperTranscriber.getInstance has returned the transcriber of the target
\* model: handleLoad up to its next await, the warmup or the topic model, or
\* to its end if there is none
LoadInstance ==
    /\ \E id \in LoadIds :
           LET c == load.calls[id]
               l == [load EXCEPT !.transcriber = c.modelId,
                                 !.currentModelId = c.modelId,
                                 !.currentDevice = c.device]
           IN /\ c.pc = "loading"
              /\ load' = IF ~load.apple \/ c.taggingEnabled
                          THEN [l EXCEPT !.calls[id].pc = "warming"]
                          ELSE handleLoadReady(l, id)
    /\ UNCHANGED <<procVars, result, call, passes, hypothesis, workerVars,
                   hook, plain, recorded>>

\* the warmup and the topic model have returned
LoadReady ==
    /\ \E id \in LoadIds :
           /\ load.calls[id].pc = "warming"
           /\ load' = handleLoadReady(load, id)
    /\ UNCHANGED <<procVars, result, call, passes, hypothesis, workerVars,
                   hook, plain, recorded>>

\* getInstance, the warmup or the topic model has thrown
LoadThrow ==
    /\ load.failures < MaxFailures
    /\ \E id \in LoadIds :
           /\ load.calls[id].pc \in {"loading", "warming"}
           /\ load' = handleLoadCatch(load, id)
    /\ UNCHANGED <<procVars, result, call, passes, hypothesis, workerVars,
                   hook, plain, recorded>>

NextLoad ==
    \/ MsgLoad
    \/ LoadRetry
    \/ LoadInstance
    \/ LoadReady
    \/ LoadThrow

\* the worker on an Apple device or on another
InitLoad ==
    /\ committedInBuffer = <<>>
    /\ buffer = <<>>
    /\ new = <<>>
    /\ lastCommittedTime = 0
    /\ lastCommittedWord = null
    /\ allCommitted = <<>>
    /\ result = [committed |-> "", tentative |-> ""]
    /\ call = [op |-> "new", again |-> FALSE, given |-> 0, inserted |-> <<>>,
               prevLen |-> 0]
    /\ passes = NoPasses
    /\ hypothesis = NoHypothesis
    /\ isProcessing = FALSE
    /\ pendingFinalize = 0
    /\ generateCall = NoGenerate
    /\ finalizeCalls = [id \in FinalizeIds |-> NoFinalize]
    /\ outbox = <<>>
    /\ committedTextRef = ""
    /\ tentativeTextRef = ""
    /\ hook = NoHook
    /\ \E apple \in BOOLEAN : load = [NoLoad EXCEPT !.apple = apple]
    /\ plain = NoPlain
    /\ recorded = NoRecorded

SpecLoad == InitLoad /\ [][NextLoad]_vars

----------------------------------------------------------------------------
(* The recording as it grows *)

\* the lengths of the recording, in samples, at which a window is cut
Lengths ==
    {MAX_SAMPLES + (k - 1) * WINDOW_SHIFT_SAMPLES + d :
         k \in 0..MaxShifts, d \in (0 - WindowSpread)..WindowSpread}

\* onDataAvailable: the recording has grown, and processAudioChunks cuts the
\* window from all of it
Record ==
    /\ \E length \in Lengths :
           /\ length > recorded.length
           /\ recorded' = windowOf(length)
    /\ UNCHANGED <<procVars, result, call, passes, hypothesis, workerVars,
                   hook, load, plain>>

NextWindow == Record

SpecWindow == Init /\ [][NextWindow]_vars

----------------------------------------------------------------------------
(* Properties of the processor *)

IsPrefix(s, t) == Len(s) <= Len(t) /\ SubSeq(t, 1, Len(s)) = s

\* the number of words the step appends to allCommitted
Appended == Len(allCommitted') - Len(allCommitted)

\* the number of words the last process() call committed
CommittedByCall == Len(call.inserted) - Len(buffer)

\* C1: a process(), finalize() or popCommitted() call leaves every word of
\* allCommitted in place and unchanged (allCommitted before the call is a
\* prefix of allCommitted after it), and process() and finalize() return the
\* text of the extended list.
C1_AppendOnly ==
    [][call'.op \in {"process", "finalize", "popCommitted"} =>
          /\ IsPrefix(allCommitted, allCommitted')
          /\ call'.op # "popCommitted" => result'.committed = join(allCommitted')]_vars

\* a process() call has committed one more word after an earlier commit
C1_Witness ==
    /\ call.op = "process"
    /\ Len(allCommitted) = 2
    /\ CommittedByCall = 1

\* C2: no process() or finalize() call leaves lastCommittedTime smaller than
\* it was before the call.
C2_MonotonicCommitTime ==
    [][call'.op \in {"process", "finalize"} =>
          lastCommittedTime' >= lastCommittedTime]_vars

\* C3: after a process() call every word of buffer starts at or after
\* lastCommittedTime.
C3_BufferAfterFrontier ==
    call.op = "process" =>
        \A i \in 1..Len(buffer) : buffer[i].start >= lastCommittedTime

\* C3 as amended: after a process() call with a non-empty hypothesis every
\* word of buffer starts later than the lastCommittedTime of before the call
\* minus the 0.1 s tolerance.
C3_BufferAfterStaleCut ==
    [][call'.op = "process" /\ call'.given > 0 =>
          \A i \in 1..Len(buffer') :
              buffer'[i].start > lastCommittedTime - STALE_TOLERANCE]_vars

\* process() has left in buffer a word that starts before lastCommittedTime
C3_Witness ==
    /\ call.op = "process"
    /\ call.given > 0
    /\ \E i \in 1..Len(buffer) : buffer[i].start < lastCommittedTime

\* C4: a process() call that finds buffer empty appends nothing to
\* allCommitted, leaves lastCommittedTime as it is, and makes every word that
\* survived _insert tentative.
C4_NoAgreementOnEmptyBuffer ==
    [][call'.op = "process" /\ buffer = <<>> =>
          /\ allCommitted' = allCommitted
          /\ lastCommittedTime' = lastCommittedTime
          /\ buffer' = call'.inserted]_vars

\* process() found buffer empty after earlier commits and was given words
C4_Witness ==
    /\ call.op = "process"
    /\ call.prevLen = 0
    /\ Len(allCommitted) > 0
    /\ Len(buffer) > 0

C6_LongestCommonPrefix ==
    [][call'.op = "process" =>
          LET k == Appended
              ins == call'.inserted
              m == Min(Len(buffer), Len(ins))
          IN /\ IsPrefix(allCommitted, allCommitted')
             /\ k <= m
             /\ \A i \in 1..k :
                    /\ toLowerCase(buffer[i].text) = toLowerCase(ins[i].text)
                    /\ allCommitted'[Len(allCommitted) + i] = ins[i]
             /\ k < m => toLowerCase(buffer[k + 1].text) # toLowerCase(ins[k + 1].text)
             /\ lastCommittedTime' = IF k > 0 THEN ins[k].end
                                     ELSE lastCommittedTime]_vars

\* process() has committed a word and stopped at a mismatch with words left
\* on both sides
C6_Witness ==
    /\ call.op = "process"
    /\ CommittedByCall >= 1
    /\ Len(buffer) >= 1
    /\ call.prevLen > CommittedByCall

\* C7: finalize() empties buffer, appends the words buffer held to
\* allCommitted in their order, and sets lastCommittedTime to the end of the
\* last of them.
C7_FinalizeIsTotal ==
    [][call'.op = "finalize" =>
          /\ buffer' = <<>>
          /\ allCommitted' = allCommitted \o buffer
          /\ lastCommittedTime' = IF Len(buffer) > 0 THEN buffer[Len(buffer)].end
                                  ELSE lastCommittedTime]_vars

\* finalize() has moved two tentative words
C7_Witness ==
    /\ call.op = "finalize"
    /\ call.prevLen >= 2

\* C8: a finalize() right after a finalize() changes no field of the
\* processor and returns the same result.
C8_FinalizeIdempotent ==
    [][call.op = "finalize" /\ call'.op = "finalize" =>
          /\ UNCHANGED procVars
          /\ result' = result]_vars

\* finalize() was called twice in a row after words were committed
C8_Witness ==
    /\ call.op = "finalize"
    /\ call.again
    /\ Len(allCommitted) > 0

C11_CommitTimeIsLastEnd ==
    lastCommittedTime = IF Len(allCommitted) > 0
                        THEN allCommitted[Len(allCommitted)].end
                        ELSE 0

\* process() has committed a word after an earlier commit and a word is
\* still tentative
C11_Witness ==
    /\ call.op = "process"
    /\ CommittedByCall > 0
    /\ Len(allCommitted) = 2
    /\ lastCommittedTime = allCommitted[2].end
    /\ lastCommittedTime > 0
    /\ Len(buffer) > 0

----------------------------------------------------------------------------
(* Properties of process() in terms of the hypothesis it was given *)

IsSuffix(s, t) == Len(s) <= Len(t) /\ SubSeq(t, Len(t) - Len(s) + 1, Len(t)) = s

\* the word of chunk i of hypothesis h in absolute time
shifted(h, i) ==
    [text |-> h.chunks[i].text,
     start |-> h.chunks[i].start + h.audioWindowStart,
     end |-> h.chunks[i].end + h.audioWindowStart]

\* the words of h that start later than cut, in the order of h
RECURSIVE laterThan(_, _, _)
laterThan(h, cut, i) ==
    IF i > Len(h.chunks) THEN <<>>
    ELSE IF shifted(h, i).start > cut
    THEN <<shifted(h, i)>> \o laterThan(h, cut, i + 1)
    ELSE laterThan(h, cut, i + 1)

\* the words the step appends to allCommitted
appendedWords == SubSeq(allCommitted', Len(allCommitted) + 1, Len(allCommitted'))

\* C12: with lastCommittedTime as it was when process() was called, no word
\* of the hypothesis whose start plus audioWindowStart is at most
\* lastCommittedTime - 0.1 s is committed by the call or placed in buffer,
\* and the words that start later go on, in their order, to the following
\* steps: what _insert leaves of them lacks at most a front n-gram that
\* repeats the end of committedInBuffer, and it is what the call commits
\* followed by what it leaves in buffer.
C12_StaleWordsDropped ==
    [][call'.op = "process" =>
          LET cut == lastCommittedTime - STALE_TOLERANCE
              h == hypothesis'
              kept == laterThan(h, cut, 1)
              k == Len(kept) - Len(call'.inserted)
          IN /\ \A i \in 1..Len(h.chunks) :
                    shifted(h, i).start <= cut =>
                        /\ \A j \in 1..Len(buffer') : buffer'[j] # shifted(h, i)
                        /\ \A j \in 1..Len(appendedWords) :
                               appendedWords[j] # shifted(h, i)
             /\ IsSuffix(call'.inserted, kept)
             /\ k > 0 =>
                    /\ k <= Len(committedInBuffer)
                    /\ joinLower(SubSeq(kept, 1, k))
                           = joinLower(sliceLast(committedInBuffer, k))
             /\ call'.given > 0 => appendedWords \o buffer' = call'.inserted]_vars

\* process() was given a stale word followed by a word that it kept, and it
\* committed nothing
C12_Witness ==
    /\ call.op = "process"
    /\ Len(hypothesis.chunks) = 2
    /\ CommittedByCall = 0
    /\ shifted(hypothesis, 1).start <= lastCommittedTime - STALE_TOLERANCE
    /\ shifted(hypothesis, 2).start > lastCommittedTime - STALE_TOLERANCE
    /\ buffer = <<shifted(hypothesis, 2)>>

\* C13: _insert removes words from the front of the hypothesis only if the
\* stale filter has left a word and the first word it left starts less than
\* 1 s from lastCommittedTime; if that word starts 1 s or more from
\* lastCommittedTime, _insert leaves all of them, whatever their texts.
C13_NgramOnlyNearFrontier ==
    [][call'.op = "process" =>
          LET kept == laterThan(hypothesis', lastCommittedTime - STALE_TOLERANCE, 1)
          IN /\ Len(call'.inserted) < Len(kept) =>
                    /\ Len(kept) > 0
                    /\ Abs(kept[1].start - lastCommittedTime) < NGRAM_WINDOW
             /\ (/\ Len(kept) > 0
                 /\ Abs(kept[1].start - lastCommittedTime) >= NGRAM_WINDOW) =>
                    call'.inserted = kept]_vars

\* process() has kept a first word that repeats the last committed word and
\* starts 1 s after lastCommittedTime
C13_Witness ==
    /\ call.op = "process"
    /\ CommittedByCall = 0
    /\ Len(committedInBuffer) > 0
    /\ Len(buffer) > 0
    /\ buffer[1] = shifted(hypothesis, 1)
    /\ buffer[1].start - lastCommittedTime = NGRAM_WINDOW
    /\ toLowerCase(buffer[1].text)
           = toLowerCase(committedInBuffer[Len(committedInBuffer)].text)

\* the smallest element of a non-empty set of numbers
least(S) == CHOOSE x \in S : \A y \in S : x <= y

\* C14: when the first word the stale filter has left starts less than 1 s
\* from lastCommittedTime, _insert removes from the front of those words
\* exactly the first i of them, for the smallest i in
\* 1..min(len(committedInBuffer), number of those words, 5) for which they
\* read, case-insensitively, as the last i words of committedInBuffer, and
\* removes nothing when there is no such i.
C14_SmallestNgram ==
    [][call'.op = "process" =>
          LET kept == laterThan(hypothesis', lastCommittedTime - STALE_TOLERANCE, 1)
              cn == Len(committedInBuffer)
              nn == Len(kept)
              matches ==
                  {i \in 1..Min(Min(cn, nn), 5) :
                      \A j \in 1..i :
                          toLowerCase(committedInBuffer[cn - i + j].text)
                              = toLowerCase(kept[j].text)}
          IN (nn > 0 /\ Abs(kept[1].start - lastCommittedTime) < NGRAM_WINDOW) =>
                 /\ IsSuffix(call'.inserted, kept)
                 /\ nn - Len(call'.inserted)
                        = IF matches = {} THEN 0 ELSE least(matches)
                 /\ nn - Len(call'.inserted) <= 5]_vars

\* process() has removed one word although the first two words of the
\* hypothesis repeat the last two committed words
C14_Witness ==
    /\ call.op = "process"
    /\ Len(committedInBuffer) >= 2
    /\ Len(hypothesis.chunks) >= 2
    /\ buffer = [i \in 1..(Len(hypothesis.chunks) - 1) |-> shifted(hypothesis, i + 1)]
    /\ joinLower(sliceLast(committedInBuffer, 2))
           = joinLower(<<shifted(hypothesis, 1), shifted(hypothesis, 2)>>)

\* C15: committedInBuffer never holds more than the 45 words of the
\* lookback.
C15_BoundedLookback ==
    Len(committedInBuffer) <= SUFFIX_SIZE

\* C16: committedInBuffer is a contiguous suffix of allCommitted in every
\* state that process(), finalize(), popCommitted() and reset() calls lead
\* to: it holds the most recently committed words in commit order.
C16_LookbackIsSuffix ==
    IsSuffix(committedInBuffer, allCommitted)

\* popCommitted() has dropped the older of two committed words
C16_Witness ==
    /\ call.op = "popCommitted"
    /\ Len(allCommitted) = 2
    /\ committedInBuffer = <<allCommitted[2]>>

\* C17: after popCommitted(beforeTime) committedInBuffer holds no word with
\* end <= beforeTime, and allCommitted, buffer and lastCommittedTime are as
\* they were before the call.
C17_PopCommitted ==
    [][call'.op = "popCommitted" =>
          /\ \A i \in 1..Len(committedInBuffer') :
                 committedInBuffer'[i].end > call'.given
          /\ UNCHANGED <<allCommitted, buffer, lastCommittedTime>>]_vars

\* C18: reset() leaves the processor with the field values the constructor
\* gives it, whatever state it was in, so that a process(), finalize() or
\* popCommitted() call made next returns and leaves what it returns and
\* leaves on a new processor.
C18_ResetIsConstructor ==
    [][call'.op = "reset" =>
          /\ Proc' = constructor
          /\ \A chunks \in Hypotheses, o \in Offsets :
                 process(Proc', chunks, o) = process(constructor, chunks, o)
          /\ finalize(Proc') = finalize(constructor)
          /\ \A time \in 0..MaxPopTime :
                 popCommitted(Proc', time) = popCommitted(constructor, time)]_vars

\* reset() was called with words committed and a tentative word in buffer
C18_Witness ==
    /\ call.op = "reset"
    /\ call.prevLen > 0
    /\ result.committed # ""
    /\ result.tentative # ""
    /\ allCommitted = <<>>
    /\ buffer = <<>>

\* C19: every word that process() places in buffer or in allCommitted has
\* end >= start, a word given with end < start being stored with its end
\* raised to its start.
C19_NoInvertedWord ==
    /\ \A i \in 1..Len(buffer) : buffer[i].end >= buffer[i].start
    /\ \A i \in 1..Len(allCommitted) : allCommitted[i].end >= allCommitted[i].start

----------------------------------------------------------------------------
(* Properties of the worker and the hook *)


\* C10: the committed and tentative texts the hook holds are the word texts
\* of allCommitted and the word texts of buffer; stated for the moments at
\* which the hook has handled every message the worker has posted.
C10_Reconstruction ==
    outbox = <<>> =>
        /\ committedTextRef = join(allCommitted)
        /\ tentativeTextRef = join(buffer)

\* the step in which a handleGenerate call ends in its catch block
GenerateThrows ==
    generateCall.pc = "transcribing" /\ generateCall'.pc = "threw"

\* C20: when the decode of a 'generate' round throws, the worker leaves
\* allCommitted, buffer, committedInBuffer and lastCommittedTime as they
\* are, posts an 'update' with the committed text there is, and releases
\* isProcessing so that the next 'generate' message is accepted.
C20_ThrowKeepsStateAndAccepts ==
    [][GenerateThrows =>
          /\ UNCHANGED <<allCommitted, buffer, committedInBuffer, lastCommittedTime>>
          /\ outbox' = Append(outbox, Update(join(allCommitted), ""))
          /\ isProcessing' = FALSE
          /\ NoMicrotask']_vars

\* C20 as amended: the next 'generate' message is accepted unless a
\* 'finalize' message was waiting for the round to end, which then goes on
\* before any other message is handled.
C20_ThrowKeepsStateAndReleases ==
    [][GenerateThrows =>
          /\ UNCHANGED <<allCommitted, buffer, committedInBuffer, lastCommittedTime>>
          /\ outbox' = Append(outbox, Update(join(allCommitted), ""))
          /\ isProcessing' = FALSE
          /\ pendingFinalize' = 0
          /\ IF pendingFinalize = 0
             THEN NoMicrotask'
             ELSE finalizeCalls'[pendingFinalize].pc = "resumed"]_vars

\* a round has thrown with a word committed and a word tentative, and a
\* 'finalize' message was waiting for it
C20_Witness ==
    /\ generateCall.pc = "threw"
    /\ ~isProcessing
    /\ Len(allCommitted) > 0
    /\ Len(buffer) > 0
    /\ Len(outbox) > 0
    /\ outbox[Len(outbox)] = Update(join(allCommitted), "")
    /\ \E id \in FinalizeIds : finalizeCalls[id].pc = "resumed"

\* the number of recognizer calls under way
decodes ==
    Cardinality({id \in FinalizeIds : finalizeCalls[id].pc = "transcribing"})
        + (IF generateCall.pc = "transcribing" THEN 1 ELSE 0)

\* C21: at most one recognizer call is under way; a 'generate' message
\* starts one only when isProcessing is false, and one that arrives while
\* isProcessing is true starts none, posts nothing and leaves the processor,
\* the flag and the calls under way as they are, whatever 'generate',
\* 'finalize' and 'reset' messages came before.
C21_OneDecodeAtATime ==
    [][/\ decodes' <= 1
       /\ (generateCall.pc # "transcribing" /\ generateCall'.pc = "transcribing")
              => ~isProcessing
       /\ (generateCall'.dropped /\ ~generateCall.dropped) =>
              /\ isProcessing
              /\ generateCall'.pc = generateCall.pc
              /\ UNCHANGED <<procVars, result, isProcessing, pendingFinalize,
                             finalizeCalls, outbox>>]_vars

\* a 'generate' message was turned away while the decode of another was
\* under way, after a word had become tentative
C21_Witness ==
    /\ generateCall.dropped
    /\ generateCall.pc = "transcribing"
    /\ isProcessing
    /\ decodes = 1
    /\ Len(buffer) > 0

\* the step is one in which a handleFinalize call runs process() or
\* finalize(): it posts an 'update' and is not the end of a handleGenerate
FinalizeActs ==
    /\ Len(outbox') > Len(outbox)
    /\ generateCall'.pc = generateCall.pc

\* C22: no handleFinalize call runs process() or finalize() while a
\* handleGenerate call awaits the recognizer; a handleFinalize call that
\* found isProcessing set goes on only once that handleGenerate call has
\* ended, having run its process() and cleared isProcessing, and until it
\* goes on no 'generate' message is accepted and no other handler of the
\* worker takes a step.
C22_FinalizeAfterGenerate ==
    [][/\ FinalizeActs => generateCall.pc # "transcribing"
       /\ \A id \in FinalizeIds :
              /\ finalizeCalls[id].pc = "waiting" =>
                     \/ finalizeCalls'[id] = finalizeCalls[id]
                     \/ /\ finalizeCalls'[id].pc = "resumed"
                        /\ generateCall.pc = "transcribing"
                        /\ generateCall'.pc \in {"returned", "threw"}
                        /\ ~isProcessing'
              /\ finalizeCalls[id].pc = "resumed" =>
                     /\ finalizeCalls'[id].pc = "resumed" =>
                            UNCHANGED <<procVars, isProcessing, pendingFinalize>>
                     /\ generateCall' = generateCall
                     /\ \A other \in FinalizeIds \ {id} :
                            finalizeCalls'[other] = finalizeCalls[other]]_vars

\* a handleFinalize call that had to wait for a handleGenerate call is
\* past its own finalize(), and that handleGenerate call has returned
C22_Witness ==
    /\ generateCall.pc = "returned"
    /\ \E id \in FinalizeIds :
           /\ finalizeCalls[id].pc = "tagging"
           /\ finalizeCalls[id].waited
    /\ Len(allCommitted) > 0

\* C23: once stopRecording has been called it reaches the save step, whatever
\* the worker posts or fails to post
C23_StopReachesSave == (hook.pc # "recording") ~> (hook.pc = "saved")

\* C23, the waits: stopRecording ends every one of its three timed waits, and
\* then either reaches the save step or has thrown out of getFinalizePayload
C23_StopSavesOrThrows == (hook.pc # "recording") ~> (hook.pc \in {"saved", "threw"})

\* C23, the save step: what is saved is the committed text followed by the
\* tentative text that the hook holds then, when there is any
C23_SavesLastText ==
    [][hook.pc # "saved" /\ hook'.pc = "saved"
           /\ finalTranscript(committedTextRef', tentativeTextRef') # ""
       => hook'.saved = finalTranscript(committedTextRef', tentativeTextRef')]_vars

\* C24: a handleGenerate whose decode began before a 'reset' and ends after
\* it leaves the processor as the reset left it
C24_StaleDecodeDiscarded ==
    [][generateCall.pc = "transcribing" /\ generateCall.stale
           /\ generateCall'.pc \in {"returned", "threw"}
       => UNCHANGED procVars]_vars

\* C25: in the plain-text processor, the committed text that a process() call
\* returns begins, word by word, with the committed text that the call before
\* it returned, no reset() lying between them
C25_PlainCommittedGrows ==
    [][plain' # plain_reset
       => /\ Len(plain.result.committed) <= Len(plain'.result.committed)
          /\ SubSeq(plain'.result.committed, 1, Len(plain.result.committed))
                 = plain.result.committed]_vars

\* C26: a process() call given no words leaves allCommitted, buffer,
\* committedInBuffer and lastCommittedTime as they are, and returns the
\* committed text and the tentative text held
C26_EmptyHypothesisChangesNothing ==
    [][call'.op = "process" /\ call'.given = 0
       => /\ UNCHANGED <<allCommitted, buffer, committedInBuffer, lastCommittedTime>>
          /\ result'.committed = join(allCommitted)
          /\ result'.tentative = join(buffer)]_vars

C26_Witness ==
    /\ call.op = "process"
    /\ call.given = 0
    /\ Len(allCommitted) > 0
    /\ Len(buffer) > 0
    /\ Len(committedInBuffer) > 0
    /\ result = [committed |-> join(allCommitted), tentative |-> join(buffer)]

\* C27: no handleFinalize call stays suspended on pendingFinalize for ever
C27_NoFinalizeWaitsForever ==
    (\E id \in FinalizeIds : finalizeCalls[id].pc = "waiting")
        ~> (\A id \in FinalizeIds : finalizeCalls[id].pc # "waiting")

\* C28: loadAttempts never exceeds MAX_LOAD_ATTEMPTS
C28_AttemptsBounded == load.loadAttempts <= MAX_LOAD_ATTEMPTS

C28_AttemptsWitness ==
    /\ load.loadAttempts = MAX_LOAD_ATTEMPTS
    /\ load.posted = "error"
    /\ \A id \in LoadIds : load.calls[id].pc = "idle"

\* C28: a failed load schedules at most one retry, on "wasm"; and no more
\* than MAX_LOAD_ATTEMPTS attempts fail in a row before 'error' is posted
C28_RetryBounded ==
    [][/\ load'.loadAttempts <= MAX_LOAD_ATTEMPTS
       /\ load'.failures <= MAX_LOAD_ATTEMPTS
       /\ Cardinality({id \in LoadIds : load'.calls[id].pc = "scheduled"
                                          /\ load.calls[id].pc # "scheduled"}) <= 1
       /\ \A id \in LoadIds :
              load'.calls[id].pc = "scheduled" => load'.calls[id].device = "wasm"]_vars

\* C29: when a load for another model has arrived during a load and every
\* load has since ended without a failure, the worker holds the model
\* requested last
C29_LatestModelWins ==
    load.race = "open" /\ (\A id \in LoadIds : load.calls[id].pc = "idle")
        => load.transcriber = load.latest /\ load.currentModelId = load.latest

\* C29: isLoading is cleared only by the load of the model requested last
C29_ClearedByLatest ==
    [][load.isLoading /\ ~load'.isLoading /\ load'.posted = "ready"
       => \A id \in LoadIds : load'.calls[id].pc \notin {"loading", "warming"}]_vars

\* C30: the window sent starts at a whole number of shifts, is at most
\* MAX_SAMPLES long, ends at the last recorded sample, is longer than
\* MAX_SAMPLES - WINDOW_SHIFT_SAMPLES once the recording is longer than
\* MAX_SAMPLES, and audioWindowStart never decreases as the recording grows
C30_WindowShift ==
    [][/\ recorded'.samplesToSkip % WINDOW_SHIFT_SAMPLES = 0
       /\ recorded'.audioWindowStart * WHISPER_SAMPLING_RATE = recorded'.samplesToSkip
       /\ recorded'.sent <= MAX_SAMPLES
       /\ recorded'.samplesToSkip + recorded'.sent = recorded'.length
       /\ recorded'.length > MAX_SAMPLES
              => recorded'.sent > MAX_SAMPLES - WINDOW_SHIFT_SAMPLES
       /\ recorded'.length > recorded.length
              => recorded'.audioWindowStart >= recorded.audioWindowStart]_vars

C30_Witness ==
    /\ recorded.length > MAX_SAMPLES + WINDOW_SHIFT_SAMPLES
    /\ recorded.audioWindowStart = 2 * WINDOW_SHIFT
    /\ recorded.sent = MAX_SAMPLES - WINDOW_SHIFT_SAMPLES + 1

====
